---- MODULE Spec2Model ----
(***************************************************************************)
(* Model of the Gemini adapter of the Swarm framework                      *)
(* (swarm/clients/gemini_client.py) and of the weather example agent       *)
(* (examples/weather_agent_gemini/agents.py).                              *)
(*                                                                         *)
(* Python values are modelled as records.  A dict with optional keys is a  *)
(* record whose DOMAIN holds the keys that are present; None is the record *)
(* None; a list that may also be None is wrapped by PyList.  A JSON text   *)
(* is the sequence of its lexical tokens, so that json.dumps and           *)
(* json.loads are a printer and a parser, not the identity.                *)
(***************************************************************************)
EXTENDS Integers, Sequences, FiniteSets, TLC

VARIABLES
    pc,            \* position of Completions.create: idle / awaiting / returned / raised
    messages,      \* kwargs["messages"] of the invocation in progress
    swarm_tools,   \* kwargs["tools"] of the invocation in progress
    request,       \* what generate_content was handed: contents and tools
    calls,         \* generate_content calls made by the current invocation
    response,      \* what the backend answered to the current invocation
    result,        \* the envelope create returned, or None
    error,         \* the exception that left create, or ""
    invocations,   \* number of invocations of create started so far
    prev,          \* reply and envelope of the previous returned invocation
    w_pc,          \* position of get_weather: idle / awaiting / returned
    w_location,    \* argument location
    w_time,        \* argument time
    w_api_key,     \* os.getenv('OPENWEATHERMAP_API_KEY')
    w_requests,    \* requests.get calls made by the current invocation
    w_reply,       \* outcome of the HTTP request
    w_result       \* the string get_weather returned (JSON tokens), or None

client_vars == <<pc, messages, swarm_tools, request, calls, response, result,
                 error, invocations, prev>>
weather_vars == <<w_pc, w_location, w_time, w_api_key, w_requests, w_reply, w_result>>
vars == <<client_vars, weather_vars>>

\* Longest conversation handed to create.
MaxLen == 2
\* Number of invocations of create in one run.
MaxInvocations == 2

None == [py |-> "None"]
PyList(items) == [py |-> "list", items |-> items]
Raise(exc) == [raised |-> TRUE, exception |-> exc]
Return(value) == [raised |-> FALSE, value |-> value]

RECURSIVE FirstRaised(_)
\* The first exception raised while a comprehension evaluates its items in order.
FirstRaised(outcomes) ==
    IF outcomes = <<>> THEN None
    ELSE IF Head(outcomes).raised THEN Head(outcomes)
    ELSE FirstRaised(Tail(outcomes))

\* A list comprehension [f(x) for x in xs] whose items may raise.
Comprehension(outcomes) ==
    IF FirstRaised(outcomes) # None THEN FirstRaised(outcomes)
    ELSE Return([i \in 1..Len(outcomes) |-> outcomes[i].value])

(***************************************************************************)
(* JSON: json.dumps of a dict with string keys, and json.loads of the      *)
(* text.  A dict is the sequence of its items in insertion order.          *)
(***************************************************************************)
Str(s) == [kind |-> "str", v |-> s]
Float(s) == [kind |-> "float", v |-> s]
\* A protobuf Value object holding a string: it has the attribute string_value.
PbString(s) == [kind |-> "Value", v |-> s]
\* A list argument as the SDK hands it over: a RepeatedComposite, which has no
\* attribute string_value and which json.dumps does not serialize.
Composite(s) == [kind |-> "RepeatedComposite", v |-> s]

Item(k, x) == [key |-> k, value |-> x]
Punct(c) == [t |-> "punct", v |-> c]

JsonNative(x) == x.kind \in {"str", "float"}

\* The token json.dumps prints for a scalar.
ValueToken(x) == IF x.kind = "str" THEN [t |-> "string", v |-> x.v]
                 ELSE [t |-> "number", v |-> x.v]

RECURSIVE ItemTokens(_)
ItemTokens(items) ==
    IF items = <<>> THEN <<>>
    ELSE <<[t |-> "string", v |-> Head(items).key], Punct(":"), ValueToken(Head(items).value)>>
         \o (IF Tail(items) = <<>> THEN <<>> ELSE <<Punct(",")>> \o ItemTokens(Tail(items)))

\* json.dumps(d): TypeError when a value is not JSON serializable.
json_dumps(items) ==
    IF \E i \in 1..Len(items) : ~JsonNative(items[i].value)
    THEN Raise("TypeError")
    ELSE Return(<<Punct("{")>> \o ItemTokens(items) \o <<Punct("}")>>)

\* The Python value json.loads reads from a scalar token.
TokenValue(tok) == IF tok.t = "string" THEN Str(tok.v) ELSE Float(tok.v)

RECURSIVE ParseItems(_)
\* The items of an object, from the tokens between its braces.
ParseItems(toks) ==
    IF Len(toks) < 3 THEN <<>>
    ELSE <<Item(toks[1].v, TokenValue(toks[3]))>>
         \o (IF Len(toks) > 4 THEN ParseItems(SubSeq(toks, 5, Len(toks))) ELSE <<>>)

\* json.loads(text) of an object.
json_loads(toks) == ParseItems(SubSeq(toks, 2, Len(toks) - 1))

\* The key-to-value mapping a dict denotes: dict equality ignores insertion order.
Mapping(items) == {<<items[i].key, items[i].value>> : i \in 1..Len(items)}

(***************************************************************************)
(* Inputs of Completions.create.                                           *)
(***************************************************************************)
Messages == {
    [role |-> "system", content |-> "You are a helpful agent."],
    [role |-> "user", content |-> "What is the weather in Paris?"],
    [role |-> "user"],
    [role |-> "assistant", content |-> "It is sunny."],
    [role |-> "assistant", content |-> "",
     function_call |-> [name |-> "get_weather", arguments |-> "{\"location\": \"Paris\"}"]],
    [role |-> "tool", tool_name |-> "get_weather", content |-> "65"],
    [role |-> "tool", tool_name |-> "get_weather"] }

Conversations == UNION {[1..n -> Messages] : n \in 0..MaxLen}

WeatherTool ==
    [type |-> "function",
     function |-> [name |-> "get_weather",
                   description |-> "Get the current weather in a given location.",
                   parameters |-> [type |-> "object",
                                   properties |-> [location |-> [type |-> "string",
                                                                 description |-> "a city"],
                                                   time |-> [type |-> "string"]],
                                   required |-> <<"location">>]]]
BareTool ==
    [type |-> "function",
     function |-> [name |-> "noop", parameters |-> [type |-> "object"]]]
\* A tool whose function has no 'parameters' key.
BrokenTool ==
    [type |-> "function", function |-> [name |-> "broken"]]

ToolLists == {<<>>, <<WeatherTool, BareTool>>, <<WeatherTool, BrokenTool>>}

(***************************************************************************)
(* The request side of the adapter.                                        *)
(***************************************************************************)
\* dict.get(key, default)
Get(d, key, default) == IF key \in DOMAIN d THEN d[key] ELSE default

_convert_swarm_tool_to_gemini_tool(swarm_tool) ==
    LET function_details == swarm_tool.function IN
    IF "parameters" \notin DOMAIN function_details THEN Raise("KeyError")
    ELSE
    LET properties == Get(function_details.parameters, "properties", <<>>)
        required == Get(function_details.parameters, "required", <<>>)
        function_declaration ==
            [name |-> function_details.name,
             description |-> Get(function_details, "description", ""),
             parameters |-> [type |-> "object",
                             properties |-> [key \in DOMAIN properties |->
                                 [type |-> properties[key].type,
                                  description |-> Get(properties[key], "description", "")]],
                             required |-> required]]
    IN Return([function_declarations |-> <<function_declaration>>])

\* A faulty variant: the tool role is missing from the table.
role_mapping_without_tool == [assistant |-> "model"]

role_mapping == [assistant |-> "model", tool |-> "model"]

\* A Content object with one text part.
Content(role, text) == [role |-> role, parts |-> <<[text |-> text]>>]

_convert_message(message) ==
    LET role == Get(role_mapping, message.role, message.role) IN
    IF "function_call" \in DOMAIN message
    THEN Return(Content(role, message.function_call.name \o "("
                              \o message.function_call.arguments \o ")"))
    ELSE IF "tool_name" \in DOMAIN message
    THEN (IF "content" \in DOMAIN message
          THEN Return(Content(role, message.content))
          ELSE Raise("KeyError"))
    ELSE Return(Content(role, Get(message, "content", "")))

NotSystem(msg) == msg.role # "system"

\* A faulty variant: only a leading system message is dropped.
filtered_messages_leading(msgs) ==
    IF msgs # <<>> /\ Head(msgs).role = "system" THEN Tail(msgs) ELSE msgs

filtered_messages(msgs) == SelectSeq(msgs, NotSystem)

gemini_tools(tools) ==
    Comprehension([i \in 1..Len(tools) |-> _convert_swarm_tool_to_gemini_tool(tools[i])])

conversation_history(msgs) ==
    Comprehension([i \in 1..Len(filtered_messages(msgs)) |->
                      _convert_message(filtered_messages(msgs)[i])])
(***************************************************************************)
(* Replies of the backend.                                                 *)
(***************************************************************************)
\* function_call.args: a plain dict, or the SDK's mapping object (not a dict).
Args(isdict, items) == [isdict |-> isdict, items |-> items]
FunctionCall(name, args) == [name |-> name, args |-> args]

ArgValues == {Str("Paris"), Float("3.0"), PbString("Paris"),
              Composite("[\"Paris\", \"Berlin\"]")}

FunctionCalls ==
    {FunctionCall("get_weather", Args(TRUE, <<>>)),
     FunctionCall("get_weather", Args(TRUE, <<Item("location", Str("Paris"))>>)),
     FunctionCall("get_weather", Args(TRUE, <<Item("location", Str("Paris")),
                                             Item("time", Str("now"))>>))}
    \cup {FunctionCall("get_weather", Args(FALSE, <<Item("location", x)>>)) : x \in ArgValues}
    \cup {FunctionCall("get_weather", Args(FALSE, <<Item("time", Str("now")),
                                                   Item("location", x)>>)) :
             x \in {Str("Paris"), Float("3.0")}}

SecondCall == FunctionCall("get_time", Args(TRUE, <<Item("zone", Str("CET"))>>))

\* A candidate: its function calls and the text of its content.
Candidate(function_calls, text) == [function_calls |-> function_calls, text |-> text]

TextCandidates == {Candidate(<<>>, "It is sunny in Paris."), Candidate(<<>>, "")}

CallCandidates ==
    {Candidate(<<fc>>, "") : fc \in FunctionCalls}
    \cup {Candidate(<<fc, SecondCall>>, "") : fc \in {f \in FunctionCalls : f.args.isdict}}

Responses ==
    {[candidates |-> <<>>]}
    \cup {[candidates |-> <<c>>] : c \in TextCandidates \cup CallCandidates}
    \cup {[candidates |-> <<c, d>>] : c \in TextCandidates,
                                      d \in {Candidate(<<SecondCall>>, "")}}

(***************************************************************************)
(* The response side of the adapter.                                       *)
(***************************************************************************)
\* hasattr(value, "string_value")
HasStringValue(value) == value.kind = "Value"

\* value.string_value of a protobuf Value
string_value(value) == Str(value.v)

\* getattr(value, "string_value", value)
GetStringValue(value) == IF HasStringValue(value) THEN string_value(value) ELSE value

_serialize_function_call(function_call) ==
    IF function_call.args.isdict
    THEN function_call.args.items
    ELSE [i \in 1..Len(function_call.args.items) |->
             Item(function_call.args.items[i].key,
                  GetStringValue(function_call.args.items[i].value))]

_create_function_structure(function_call) ==
    LET dumped == json_dumps(_serialize_function_call(function_call)) IN
    IF dumped.raised THEN dumped
    ELSE Return([name |-> function_call.name, arguments |-> dumped.value])

\* str(uuid.uuid4()): an identifier no earlier call was given.
uuid4(n) == "uuid-" \o ToString(n)

_create_tool_call(function_call, n) ==
    LET structure == _create_function_structure(function_call) IN
    IF structure.raised THEN structure
    ELSE Return([id |-> uuid4(n), function |-> structure.value, type |-> "function"])

Envelope(message) == [choices |-> <<[message |-> message]>>]

BlockedText == "The response was blocked by safety filters and no candidates were returned."

blocked_envelope ==
    Envelope([content |-> BlockedText, tool_calls |-> None,
              role |-> "assistant", sender |-> "assistant"])

\* A faulty variant: the function-call message is built without its content field.
function_call_envelope_no_content(function_calls, n) ==
    LET function_call == function_calls[1]
        tool_call == _create_tool_call(function_call, n)
        arguments == json_dumps(_serialize_function_call(function_call))
    IN  IF tool_call.raised THEN tool_call
        ELSE IF arguments.raised THEN arguments
        ELSE Return(Envelope(
                [function_call |-> [name |-> function_call.name,
                                    arguments |-> arguments.value],
                 tool_calls |-> PyList(<<tool_call.value>>),
                 role |-> "assistant",
                 sender |-> "assistant"]))

function_call_envelope(function_calls, n) ==
    LET function_call == function_calls[1]
        tool_call == _create_tool_call(function_call, n)
        arguments == json_dumps(_serialize_function_call(function_call))
    IN  IF tool_call.raised THEN tool_call
        ELSE IF arguments.raised THEN arguments
        ELSE Return(Envelope(
                [function_call |-> [name |-> function_call.name,
                                    arguments |-> arguments.value],
                 tool_calls |-> PyList(<<tool_call.value>>),
                 role |-> "assistant",
                 content |-> "",
                 sender |-> "assistant"]))

text_envelope(candidate) ==
    Envelope([content |-> candidate.text, tool_calls |-> None,
              role |-> "assistant", sender |-> "assistant"])

\* A faulty variant: the candidates are not checked before the first one is read.
handle_response_unchecked(resp, n) ==
    IF resp.candidates = <<>> THEN Raise("IndexError")
    ELSE IF resp.candidates[1].function_calls # <<>>
    THEN function_call_envelope(resp.candidates[1].function_calls, n)
    ELSE Return(text_envelope(resp.candidates[1]))

\* A faulty variant: the last candidate is read instead of the first.
handle_response_last(resp, n) ==
    IF resp.candidates = <<>> THEN Return(blocked_envelope)
    ELSE IF resp.candidates[Len(resp.candidates)].function_calls # <<>>
    THEN function_call_envelope(resp.candidates[Len(resp.candidates)].function_calls, n)
    ELSE Return(text_envelope(resp.candidates[Len(resp.candidates)]))

\* A faulty variant: every envelope is stamped with a fresh identifier.
handle_response_stamped(resp, n) ==
    IF resp.candidates = <<>> THEN Return(blocked_envelope)
    ELSE IF resp.candidates[1].function_calls # <<>>
    THEN function_call_envelope(resp.candidates[1].function_calls, n)
    ELSE Return([choices |-> text_envelope(resp.candidates[1]).choices, id |-> uuid4(n)])

\* create, from the return of generate_content on.
handle_response(resp, n) ==
    IF resp.candidates = <<>> THEN Return(blocked_envelope)
    ELSE IF resp.candidates[1].function_calls # <<>>
    THEN function_call_envelope(resp.candidates[1].function_calls, n)
    ELSE Return(text_envelope(resp.candidates[1]))

(***************************************************************************)
(* Completions.create                                                      *)
(***************************************************************************)
\* A faulty variant: generate_content is called before the conversions.
calls_made_eagerly(tools, history) == 1

\* generate_content is called once the tools and the messages are converted.
calls_made(tools, history) == IF tools.raised \/ history.raised THEN 0 ELSE 1

\* create up to the call of generate_content: filter, convert, call.
create_call(kw_messages, kw_tools) ==
    /\ pc \in {"idle", "returned", "raised"}
    /\ invocations < MaxInvocations
    /\ invocations' = invocations + 1
    /\ response' = None
    /\ result' = None
    /\ prev' = IF pc = "returned" THEN [response |-> response, result |-> result] ELSE prev
    /\ LET tools == gemini_tools(kw_tools)
           history == conversation_history(kw_messages)
       IN  IF tools.raised \/ history.raised
           THEN /\ pc' = "raised"
                /\ error' = (IF tools.raised THEN tools.exception ELSE history.exception)
                /\ calls' = calls_made(tools, history)
                /\ messages' = None
                /\ swarm_tools' = None
                /\ request' = None
           ELSE /\ pc' = "awaiting"
                /\ error' = ""
                /\ calls' = calls_made(tools, history)
                /\ messages' = kw_messages
                /\ swarm_tools' = kw_tools
                /\ request' = [contents |-> history.value, tools |-> tools.value]
    /\ UNCHANGED weather_vars

\* A faulty variant: the exception is caught and answered like a blocked reply.
generate_content_caught ==
    /\ pc = "awaiting"
    /\ pc' = "returned"
    /\ error' = ""
    /\ response' = Raise("BackendError")
    /\ result' = blocked_envelope
    /\ messages' = None
    /\ swarm_tools' = None
    /\ request' = None
    /\ UNCHANGED <<calls, invocations, prev>>
    /\ UNCHANGED weather_vars

\* generate_content raises: nothing in create catches it.
generate_content_raises ==
    /\ pc = "awaiting"
    /\ pc' = "raised"
    /\ error' = "BackendError"
    /\ response' = Raise("BackendError")
    /\ result' = None
    /\ messages' = None
    /\ swarm_tools' = None
    /\ request' = None
    /\ UNCHANGED <<calls, invocations, prev>>
    /\ UNCHANGED weather_vars

\* generate_content returns resp, and create runs to its end.
generate_content_returns(resp) ==
    /\ pc = "awaiting"
    /\ response' = resp
    /\ LET outcome == handle_response(resp, invocations) IN
           IF outcome.raised
           THEN pc' = "raised" /\ error' = outcome.exception /\ result' = None
           ELSE pc' = "returned" /\ error' = "" /\ result' = outcome.value
    /\ messages' = None
    /\ swarm_tools' = None
    /\ request' = None
    /\ UNCHANGED <<calls, invocations, prev>>
    /\ UNCHANGED weather_vars

(***************************************************************************)
(* get_weather (examples/weather_agent_gemini/agents.py)                   *)
(***************************************************************************)
Locations == {"Paris", "Berlin", "Atlantis", ""}
Times == {"now", "noon", "tomorrow"}
\* os.getenv: None when the variable is unset; it may also be set to "".
ApiKeys == {None, Str(""), Str("k-123")}

Dict(d) == [kind |-> "dict", d |-> d]

\* What requests.get and response.json() can produce.
HttpReplies ==
    {[raises |-> "ConnectionError"],
     [body |-> "<html>502 Bad Gateway</html>"],
     [json |-> [cod |-> Str("401"), message |-> Str("Invalid API key")]],
     [json |-> [name |-> Str("Paris")]],
     [json |-> [name |-> Str("Paris"), main |-> Dict([humidity |-> Float("40")])]],
     [json |-> [name |-> Str("Paris"), main |-> Str("n/a")]],
     [json |-> [name |-> Str("Paris"), main |-> Dict([temp |-> Float("18.5")])]],
     [json |-> [name |-> Str("Berlin"), main |-> Dict([temp |-> Float("-2.0")])]]}

MockTemperature == "65"

\* bool(api_key)
Truthy(api_key) == api_key # None /\ api_key # Str("")

mock_response(location, time) ==
    <<Item("location", Str(location)), Item("temperature", Str(MockTemperature)),
      Item("time", Str(time))>>

\* The body of the try block, from the return of requests.get on.
lookup(reply, time) ==
    IF "raises" \in DOMAIN reply THEN Raise(reply.raises)
    ELSE IF "json" \notin DOMAIN reply THEN Raise("ValueError")
    ELSE LET data == reply.json IN
         IF "name" \notin DOMAIN data THEN Raise("KeyError")
         ELSE IF "main" \notin DOMAIN data THEN Raise("KeyError")
         ELSE IF data.main.kind # "dict" THEN Raise("TypeError")
         ELSE IF "temp" \notin DOMAIN data.main.d THEN Raise("KeyError")
         ELSE json_dumps(<<Item("location", data.name),
                           Item("temperature", data.main.d.temp),
                           Item("time", Str(time))>>)

\* A faulty variant: only the errors of the request itself are caught.
Caught_request_errors(exc) == exc = "ConnectionError"

\* except Exception: every exception the try block can raise is caught.
Caught(exc) == TRUE

\* get_weather up to the HTTP request.
get_weather_call(location, time, api_key) ==
    /\ w_pc \in {"idle", "returned", "raised"}
    /\ w_location' = location
    /\ w_time' = time
    /\ w_api_key' = api_key
    /\ w_reply' = None
    /\ IF Truthy(api_key)
       THEN /\ w_pc' = "awaiting"
            /\ w_requests' = 1
            /\ w_result' = None
       ELSE /\ w_pc' = "returned"
            /\ w_requests' = 0
            /\ w_result' = json_dumps(mock_response(location, time)).value
    /\ UNCHANGED client_vars

\* requests.get ends with reply, and get_weather runs to its end.
get_weather_reply(reply) ==
    /\ w_pc = "awaiting"
    /\ w_reply' = reply
    /\ LET outcome == lookup(reply, w_time) IN
           IF ~outcome.raised
           THEN w_pc' = "returned" /\ w_result' = outcome.value
           ELSE IF Caught(outcome.exception)
           THEN /\ w_pc' = "returned"
                /\ w_result' = json_dumps(mock_response(w_location, w_time)).value
           ELSE w_pc' = "raised" /\ w_result' = None
    /\ UNCHANGED <<w_location, w_time, w_api_key, w_requests>>
    /\ UNCHANGED client_vars

Init ==
    /\ pc = "idle"
    /\ messages = None
    /\ swarm_tools = None
    /\ request = None
    /\ calls = 0
    /\ response = None
    /\ result = None
    /\ error = ""
    /\ invocations = 0
    /\ prev = None
    /\ w_pc = "idle"
    /\ w_location = ""
    /\ w_time = ""
    /\ w_api_key = None
    /\ w_requests = 0
    /\ w_reply = None
    /\ w_result = None

Next ==
    \/ \E kw_messages \in Conversations, kw_tools \in ToolLists :
           create_call(kw_messages, kw_tools)
    \/ generate_content_raises
    \/ \E resp \in Responses : generate_content_returns(resp)

Spec == Init /\ [][Next]_vars

WeatherNext ==
    \/ \E location \in Locations, time \in Times, api_key \in ApiKeys :
           get_weather_call(location, time, api_key)
    \/ \E reply \in HttpReplies : get_weather_reply(reply)

WeatherSpec == Init /\ [][WeatherNext]_vars
(***************************************************************************)
(* Properties                                                              *)
(***************************************************************************)
IsSystem(msg) == msg.role = "system"
NonSystem(msgs) == SelectSeq(msgs, LAMBDA m : m.role # "system")

Replied == response # None /\ "candidates" \in DOMAIN response
Blocked == Replied /\ response.candidates = <<>>
EmittedCall == Replied /\ response.candidates # <<>>
               /\ response.candidates[1].function_calls # <<>>
PlainText == Replied /\ response.candidates # <<>>
             /\ response.candidates[1].function_calls = <<>>
Message == result.choices[1].message

\* C1: no message whose role is "system" is in the conversation history handed
\* to generate_content, wherever and however often system messages occur in
\* the input; the history holds one entry per other message.
C1_NoSystemMessageInRequest ==
    pc = "awaiting" =>
        /\ \A i \in 1..Len(request.contents) : request.contents[i].role # "system"
        /\ Len(request.contents) = Len(NonSystem(messages))

C1_Witness ==
    /\ pc = "awaiting"
    /\ Len(messages) = 2
    /\ ~IsSystem(messages[1])
    /\ IsSystem(messages[2])
    /\ Len(request.contents) = 1

\* The role the mapping table gives.
TableRole(role) == IF role \in {"assistant", "tool"} THEN "model" ELSE role

\* C2: every converted message carries the role of the fixed table, assistant
\* and tool as "model" and any other role unchanged, whether the message is a
\* function_call message, a tool_name message or a plain one.
C2_RolesFollowTable ==
    pc = "awaiting" =>
        \A i \in 1..Len(request.contents) :
            request.contents[i].role = TableRole(NonSystem(messages)[i].role)

C2_Witness ==
    /\ pc = "awaiting"
    /\ Len(messages) = 2
    /\ "function_call" \in DOMAIN messages[1]
    /\ messages[1].role = "assistant"
    /\ "tool_name" \in DOMAIN messages[2]
    /\ messages[2].role = "tool"
    /\ request.contents[1].role = "model"
    /\ request.contents[2].role = "model"

\* C3: on a reply with zero candidates create does not raise; it returns the
\* fixed blocked-response text, with tool_calls None and role "assistant".
C3_BlockedReplyRecovered ==
    Blocked =>
        /\ pc = "returned"
        /\ error = ""
        /\ Message.content =
             "The response was blocked by safety filters and no candidates were returned."
        /\ Message.tool_calls = None
        /\ Message.role = "assistant"

C3_Witness ==
    /\ Blocked
    /\ pc = "returned"
    /\ calls = 1
    /\ Message.content = BlockedText

\* What the backend provided as an argument value.
Denotes(x) == IF x.kind = "Value" THEN Str(x.v) ELSE x
Provided(function_call) ==
    {<<function_call.args.items[i].key, Denotes(function_call.args.items[i].value)>> :
        i \in 1..Len(function_call.args.items)}

\* C4: when the first candidate emits function calls, the envelope holds
\* exactly one tool call, for the first of them: its name, and arguments that
\* decode to the mapping the backend provided; function_call mirrors the name
\* and the arguments string.
C4_ToolCallCarriesArguments ==
    EmittedCall =>
        /\ pc = "returned"
        /\ Message.tool_calls # None
        /\ Len(Message.tool_calls.items) = 1
        /\ LET emitted == response.candidates[1].function_calls[1]
               tool_call == Message.tool_calls.items[1]
           IN  /\ tool_call.function.name = emitted.name
               /\ Mapping(json_loads(tool_call.function.arguments)) = Provided(emitted)
               /\ Message.function_call.name = emitted.name
               /\ Message.function_call.arguments = tool_call.function.arguments

\* C5: when the first candidate carries no function call, the content is the
\* first candidate's text, tool_calls is None and there is no function_call.
C5_PlainTextReply ==
    PlainText =>
        /\ pc = "returned"
        /\ Message.content = response.candidates[1].text
        /\ Message.tool_calls = None
        /\ "function_call" \notin DOMAIN Message

C5_Witness ==
    /\ PlainText
    /\ pc = "returned"
    /\ Len(response.candidates) = 2
    /\ Message.content = "It is sunny in Paris."

\* C6: every returned envelope has exactly one choice whose message has the
\* fields content, tool_calls, role and sender, with role = sender =
\* "assistant"; tool_calls is a non-empty list exactly when the backend
\* emitted a function call.
C6_EnvelopeShape ==
    pc = "returned" =>
        /\ DOMAIN result = {"choices"}
        /\ Len(result.choices) = 1
        /\ {"content", "tool_calls", "role", "sender"} \subseteq DOMAIN Message
        /\ Message.role = "assistant"
        /\ Message.sender = "assistant"
        /\ (Message.tool_calls # None /\ Message.tool_calls.items # <<>>) <=> EmittedCall

C6_Witness ==
    /\ pc = "returned"
    /\ EmittedCall
    /\ Message.tool_calls # None
    /\ prev # None
    /\ prev.result.choices[1].message.tool_calls = None

\* C7 as stated: every invocation that has ended made exactly one call of
\* generate_content, also when a conversion failed.
C7_ExactlyOneCall == pc \in {"returned", "raised"} => calls = 1

\* C7 amended: an invocation makes at most one call of generate_content:
\* one when the conversions succeed, none when a conversion raises.
C7_AtMostOneCall ==
    /\ calls <= 1
    /\ pc \in {"awaiting", "returned"} => calls = 1
    /\ pc = "raised" => calls = (IF error = "KeyError" THEN 0 ELSE 1)
    /\ pc = "idle" => calls = 0

C7_Witness ==
    /\ pc = "awaiting"
    /\ Len(messages) = 2
    /\ \A i \in 1..2 : IsSystem(messages[i])
    /\ request.contents = <<>>
    /\ calls = 1

WeatherFailed ==
    \/ ~Truthy(w_api_key)
    \/ /\ w_reply # None
       /\ \/ "raises" \in DOMAIN w_reply
          \/ "json" \notin DOMAIN w_reply
          \/ "name" \notin DOMAIN w_reply.json
          \/ "main" \notin DOMAIN w_reply.json
          \/ w_reply.json.main.kind # "dict"
          \/ "temp" \notin DOMAIN w_reply.json.main.d

\* C8: get_weather never propagates a failure: without a credential (and then
\* without any request), on a request that raises and on a malformed payload
\* it returns the mock response: temperature "65", the input location and time.
C8_WeatherFallsBack ==
    /\ w_pc # "raised"
    /\ ~Truthy(w_api_key) => w_requests = 0
    /\ (w_pc = "returned" /\ WeatherFailed) =>
           Mapping(json_loads(w_result)) =
               {<<"location", Str(w_location)>>, <<"temperature", Str("65")>>,
                <<"time", Str(w_time)>>}

C8_Witness ==
    /\ w_pc = "returned"
    /\ w_reply # None
    /\ "json" \in DOMAIN w_reply
    /\ "name" \in DOMAIN w_reply.json
    /\ "main" \in DOMAIN w_reply.json
    /\ w_reply.json.main.kind = "dict"
    /\ "temp" \notin DOMAIN w_reply.json.main.d
    /\ w_location = "Berlin"

\* C9: two invocations that receive the same reply with no function call
\* (plain text, or zero candidates) return identical envelopes; on the
\* function-call path the envelopes differ by the call identifier alone.
C9_SameReplySameEnvelope ==
    (pc = "returned" /\ prev # None /\ prev.response = response) =>
        IF EmittedCall
        THEN LET a == prev.result.choices[1].message
                 b == Message
             IN  /\ a.tool_calls.items[1].id # b.tool_calls.items[1].id
                 /\ a.tool_calls.items[1].function = b.tool_calls.items[1].function
                 /\ a.function_call = b.function_call
                 /\ a.content = b.content
        ELSE prev.result = result

C9_Witness ==
    /\ pc = "returned"
    /\ prev # None
    /\ prev.response = response
    /\ PlainText
    /\ prev.result = result

\* C10 as stated: a backend error is handled like a blocked reply: create
\* returns a fallback envelope and no invocation ends in an exception.
C10_BackendErrorRecovered ==
    (response # None /\ "raised" \in DOMAIN response) =>
        pc = "returned" /\ result # None

\* C10 amended: an exception of generate_content is not recovered: it leaves
\* create, which returns no envelope; only the zero-candidate reply is
\* turned into a fallback envelope.
C10_BackendErrorPropagates ==
    /\ (response # None /\ "raised" \in DOMAIN response) =>
           pc = "raised" /\ error = "BackendError" /\ result = None
    /\ Blocked => pc = "returned" /\ result # None

C10_Witness ==
    /\ pc = "raised"
    /\ error = "BackendError"
    /\ response # None
    /\ "raised" \in DOMAIN response
    /\ calls = 1
====
